---- MODULE Spec2Model ----
(***************************************************************************)
(* The /api/convert handler of server.js (src/unnamed/part_000): one       *)
(* conversion request, the upstream generate call, the relay of the        *)
(* upstream NDJSON stream to the downstream SSE response.                  *)
(*                                                                         *)
(* Text is a sequence of one-character tokens.  On the upstream wire:      *)
(*   "{" "}"   the braces of a JSON object                                 *)
(*   "a" "b"   a member  "response":"a"  /  "response":"b"                 *)
(*   "D"       the member "done":true                                      *)
(*   "T"       the member "total_duration":500                             *)
(*   "x"       a character that is no JSON                                 *)
(*   " "       white space,  "\n"  the record delimiter                    *)
(*   "C3" "A9" the two bytes of the member "response":"\u00e9", which the  *)
(*             decoded text holds as "E"; "?" is U+FFFD                    *)
(***************************************************************************)
EXTENDS Naturals, Sequences, FiniteSets

VARIABLES
    pc,            \* position of the handler: idle, awaiting, streaming, responded
    body,          \* req.body of the request being handled
    res,           \* the express response object
    connected,     \* the downstream socket is still open
    upstreamCalls, \* generate calls issued to the model server
    up,            \* the upstream call: none, pending, open, ended, errored, failed, done
    wire,          \* the bytes the open upstream stream sends
    pos,           \* how many of them have been delivered in 'data' events
    failure,       \* the error the upstream call or stream failed with
    aligned,       \* every chunk delivered so far ended on a record delimiter
    charAligned,   \* ... or, if not, between the bytes of one character
    accepted,      \* how many of the frames written the downstream has taken
    peer,          \* a second streaming request in flight: its res and stream
    client         \* the browser page: handleConvert's position and state

vars == <<pc, body, res, connected, upstreamCalls, up, wire, pos, failure,
          aligned, charAligned, accepted, peer, client>>

(***************************************************************************)
(* Bounds                                                                  *)
(***************************************************************************)
MaxLines == 3

(***************************************************************************)
(* Program constants                                                       *)
(***************************************************************************)
DefaultModel == "llama3.2:latest"

Undefined == "undefined"

NL == "\n"

FragTokens == {"a", "b", "E", "?"}

FieldTokens == FragTokens \cup {"D", "T"}

(***************************************************************************)
(* Upstream wire contract: the lines the model server may send.            *)
(***************************************************************************)
RecA == <<"{", "a", "}">>

RecB == <<"{", "b", "}">>

RecDone == <<"{", "D", "T", "}">>

RecADone == <<"{", "a", "D", "}">>

BadLine == <<"x">>

SpaceLine == <<" ">>

\* A record whose fragment is a two-byte character.
RecE == <<"{", "C3", "A9", "}">>

WellFormedLines == {RecA, RecB, RecDone, RecADone}

Lines == WellFormedLines \cup {BadLine, SpaceLine}

RECURSIVE Cat(_)
Cat(ls) == IF ls = <<>> THEN <<>> ELSE Head(ls) \o <<NL>> \o Cat(Tail(ls))

LineSeqs == UNION {[1..n -> Lines] : n \in 0..MaxLines}

Wires == {Cat(ls) : ls \in LineSeqs}

\* Streams with a multi-byte character.
UtfLines == {RecE, RecA, RecDone}

UtfWires == {Cat(ls) : ls \in UNION {[1..n -> UtfLines] : n \in 0..MaxLines}}

(***************************************************************************)
(* String helpers of the runtime, computed on token sequences.             *)
(***************************************************************************)
\* s.split('\n'): the segments between delimiters; always at least one.
\* s.indexOf('\n', i): 0 when there is none.
RECURSIVE IndexOfNL(_, _)
IndexOfNL(s, i) ==
    IF i > Len(s) THEN 0
    ELSE IF s[i] = NL THEN i
    ELSE IndexOfNL(s, i + 1)

RECURSIVE Split(_)
Split(s) ==
    LET k == IndexOfNL(s, 1)
    IN  IF k = 0
        THEN <<s>>
        ELSE <<SubSeq(s, 1, k - 1)>> \o Split(SubSeq(s, k + 1, Len(s)))

IsWs(c) == c = " " \/ c = NL

\* chunk.toString(): the bytes of this chunk decoded as UTF-8, on their
\* own: a lead byte without its continuation, or a continuation byte
\* without its lead, decodes to U+FFFD.
RECURSIVE ToString(_)
ToString(bytes) ==
    IF bytes = <<>> THEN <<>>
    ELSE IF Head(bytes) = "C3"
         THEN IF Len(bytes) >= 2 /\ bytes[2] = "A9"
              THEN <<"E">> \o ToString(SubSeq(bytes, 3, Len(bytes)))
              ELSE <<"?">> \o ToString(Tail(bytes))
    ELSE IF Head(bytes) = "A9" THEN <<"?">> \o ToString(Tail(bytes))
    ELSE <<Head(bytes)>> \o ToString(Tail(bytes))

\* s.trim(): white space removed at both ends.
RECURSIVE Trim(_)
Trim(s) ==
    IF s = <<>> THEN s
    ELSE IF IsWs(s[1]) THEN Trim(Tail(s))
    ELSE IF IsWs(s[Len(s)]) THEN Trim(SubSeq(s, 1, Len(s) - 1))
    ELSE s

\* Variant: only a missing value is falsy.
Truthy_OnlyMissing(v) == v # Undefined

\* !v for a text value: undefined and "" are falsy.
Truthy(v) == v # Undefined /\ v # ""

\* JSON.parse(line): an object text "{" members "}" (white space around it
\* allowed) yields the object, here the sequence of its members; any other
\* text throws a SyntaxError.
JSONparse(line) ==
    LET t == Trim(line)
    IN  IF /\ Len(t) >= 2
           /\ t[1] = "{"
           /\ t[Len(t)] = "}"
           /\ \A i \in 2..(Len(t) - 1) : t[i] \in FieldTokens
        THEN [ok |-> TRUE, json |-> SubSeq(t, 2, Len(t) - 1)]
        ELSE [ok |-> FALSE, json |-> <<>>]

\* json.response: the text of the response members ("" when there is none).
Response(json) == SelectSeq(json, LAMBDA c : c \in FragTokens)

\* json.done
Done(json) == \E i \in 1..Len(json) : json[i] = "D"

\* Variant: a member the payload does not have is read.
TotalDuration_Absent(json) == Undefined

\* json.total_duration
TotalDuration(json) ==
    IF \E i \in 1..Len(json) : json[i] = "T" THEN "500" ELSE Undefined

(***************************************************************************)
(* The response object.                                                    *)
(***************************************************************************)
NewRes ==
    [statusCode |-> 200, contentType |-> Undefined, sent |-> <<>>,
     frames |-> <<>>, ended |-> FALSE, writeAfterEnd |-> FALSE,
     blankParsed |-> FALSE]

ChunkFrame(text) == [chunk |-> text]

DoneFrame(json) == [done |-> TRUE, meta |-> json]

ErrorFrame(message) == [error |-> message]

\* res.write(frame): reaches the sink while the response is open and the
\* socket connected; after res.end() it is a write after end.
Write(r, conn, frame) ==
    IF r.ended THEN [r EXCEPT !.writeAfterEnd = TRUE]
    ELSE IF ~conn THEN r
    ELSE [r EXCEPT !.frames = Append(@, frame)]

\* res.end()
End(r) == [r EXCEPT !.ended = TRUE]

\* res.status(code).json(obj): the content type is set unless a header
\* already names one.
SendJson(r, conn, code, obj) ==
    [r EXCEPT !.statusCode = code,
              !.contentType = IF @ = Undefined THEN "application/json" ELSE @,
              !.sent = IF conn THEN Append(@, obj) ELSE @,
              !.ended = TRUE]

(***************************************************************************)
(* response.data.on('data'): the body of the loop over the lines.          *)
(***************************************************************************)
IsBlank(line) == \A i \in 1..Len(line) : IsWs(line[i])

\* The call JSON.parse(line) is made: r.blankParsed notes whether a line of
\* white space only was ever handed to the parser.
NoteParse(r, line) == [r EXCEPT !.blankParsed = @ \/ IsBlank(line)]

\* Variant: the done frame is written before the fragment of the record.
ProcessLine_DoneFirst(r, conn, line) ==
    IF Trim(line) = <<>> THEN r
    ELSE LET p == JSONparse(line)
             r0 == NoteParse(r, line)
         IN  IF ~p.ok THEN r0
             ELSE LET r1 == IF Done(p.json)
                            THEN End(Write(r0, conn, DoneFrame(p.json)))
                            ELSE r0
                  IN  IF Response(p.json) # <<>>
                      THEN Write(r1, conn, ChunkFrame(Response(p.json)))
                      ELSE r1

\* Variant: a line that does not parse aborts the relay.
ProcessLine_AbortOnBad(r, conn, line) ==
    IF Trim(line) = <<>> THEN r
    ELSE LET p == JSONparse(line)
             r0 == NoteParse(r, line)
         IN  IF ~p.ok THEN End(r0)
             ELSE LET r1 == IF Response(p.json) # <<>>
                            THEN Write(r0, conn, ChunkFrame(Response(p.json)))
                            ELSE r0
                  IN  IF Done(p.json)
                      THEN End(Write(r1, conn, DoneFrame(p.json)))
                      ELSE r1

\* Variant: only the empty line is skipped (no trim).
ProcessLine_NoTrim(r, conn, line) ==
    IF line = <<>> THEN r
    ELSE LET p == JSONparse(line)
             r0 == NoteParse(r, line)
         IN  IF ~p.ok THEN r0
             ELSE LET r1 == IF Response(p.json) # <<>>
                            THEN Write(r0, conn, ChunkFrame(Response(p.json)))
                            ELSE r0
                  IN  IF Done(p.json)
                      THEN End(Write(r1, conn, DoneFrame(p.json)))
                      ELSE r1

\* Variant: the fragment is written only when the record is not the last
\* (if done ... else if response).
ProcessLine_DoneOnly(r, conn, line) ==
    IF Trim(line) = <<>> THEN r
    ELSE LET p == JSONparse(line)
             r0 == NoteParse(r, line)
         IN  IF ~p.ok THEN r0
             ELSE IF Done(p.json)
                  THEN End(Write(r0, conn, DoneFrame(p.json)))
                  ELSE IF Response(p.json) # <<>>
                       THEN Write(r0, conn, ChunkFrame(Response(p.json)))
                       ELSE r0

ProcessLine(r, conn, line) ==
    IF Trim(line) = <<>> THEN r
    ELSE LET p == JSONparse(line)
             r0 == NoteParse(r, line)
         IN  IF ~p.ok THEN r0
             ELSE LET r1 == IF Response(p.json) # <<>>
                            THEN Write(r0, conn, ChunkFrame(Response(p.json)))
                            ELSE r0
                  IN  IF Done(p.json)
                      THEN End(Write(r1, conn, DoneFrame(p.json)))
                      ELSE r1

\* Variant: the lines are handled from the last to the first.
RECURSIVE ProcessLines_LastFirst(_, _, _)
ProcessLines_LastFirst(r, conn, lines) ==
    IF lines = <<>> THEN r
    ELSE ProcessLines_LastFirst(ProcessLine(r, conn, lines[Len(lines)]), conn,
                                SubSeq(lines, 1, Len(lines) - 1))

RECURSIVE ProcessLines(_, _, _)
ProcessLines(r, conn, lines) ==
    IF lines = <<>> THEN r
    ELSE ProcessLines(ProcessLine(r, conn, Head(lines)), conn, Tail(lines))

DataHandler(r, conn, chunk) == ProcessLines(r, conn, Split(ToString(chunk)))

\* Variant: the error frame is written and the response left open.
ErrorHandler_NoEnd(r, conn, message) == Write(r, conn, ErrorFrame(message))

\* Variant: the error is answered with a status code.
ErrorHandler_LateStatus(r, conn, message) ==
    SendJson(r, conn, 500, [error |-> message])

\* response.data.on('error')
ErrorHandler(r, conn, message) == End(Write(r, conn, ErrorFrame(message)))

(***************************************************************************)
(* The request: req.body, a JSON object; a member that is absent reads as  *)
(* undefined.                                                              *)
(***************************************************************************)
Bodies ==
    { [inputCode |-> "x"],
      [inputCode |-> "x", model |-> "ghost:latest", stream |-> TRUE],
      [inputCode |-> "x", stream |-> FALSE],
      [inputCode |-> "x", model |-> "ghost:latest", stream |-> FALSE],
      [inputCode |-> "x", model |-> "", stream |-> FALSE],
      [model |-> "ghost:latest"],
      [inputCode |-> ""],
      [inputCode |-> "", model |-> "ghost:latest", stream |-> FALSE] }

InputCode(b) == IF "inputCode" \in DOMAIN b THEN b.inputCode ELSE Undefined

Model(b) == IF "model" \in DOMAIN b THEN b.model ELSE Undefined

\* stream = true  when req.body has no stream member
Stream(b) == IF "stream" \in DOMAIN b THEN b.stream ELSE TRUE

\* const targetModel = model || 'llama3.2:latest'
TargetModel(b) == IF Truthy(Model(b)) THEN Model(b) ELSE DefaultModel

\* What a rejected axios call carries: the upstream status (when the
\* server answered) and error.message.
UpstreamFailures ==
    { [hasResponse |-> TRUE, status |-> 404,
       message |-> "Request failed with status code 404"],
      [hasResponse |-> TRUE, status |-> 500,
       message |-> "Request failed with status code 500"],
      [hasResponse |-> FALSE, status |-> 0,
       message |-> "connect ECONNREFUSED 127.0.0.1:11434"] }

NoFailure == [hasResponse |-> FALSE, status |-> 0, message |-> ""]

\* An 'error' event of the stream carries no upstream status.
StreamFailure(message) ==
    [hasResponse |-> FALSE, status |-> 0, message |-> message]

\* The bodies of a fulfilled non-streaming call: one JSON object, which
\* axios parses into response.data.
Payloads ==
    { <<"{", "a", "D", "T", "}">>, <<"{", "a", "b", "D", "}">>,
      <<"{", "D", "T", "}">> }

\* err.message of a transport error on the open stream.
StreamErrors == {"aborted", "socket hang up"}

\* `Model '${targetModel}' not found.`
NotFoundMessage(m) == <<"Model '", m, "' not found.">>

\* Variant: the message names req.body.model, not targetModel.
ErrorMsg_RawModel(b, error) ==
    IF error.hasResponse /\ error.status = 404
    THEN NotFoundMessage(Model(b))
    ELSE <<error.message>>

\* error.response?.status === 404 ? `Model ...` : error.message
ErrorMsg(b, error) ==
    IF error.hasResponse /\ error.status = 404
    THEN NotFoundMessage(TargetModel(b))
    ELSE <<error.message>>

\* No second request in flight.
NoPeer == [res |-> NewRes, wire |-> <<>>, pos |-> 0, up |-> "none"]

\* The page as mounted (App.tsx useState, useRef).
NewApp ==
    [pc |-> "idle", inputCode |-> "x", isLoading |-> FALSE,
     outputCode |-> <<"// Playwright code will appear here...">>,
     outputRef |-> <<>>, rd |-> 0]

(***************************************************************************)
(* State machine                                                           *)
(***************************************************************************)
Init ==
    /\ pc = "idle"
    /\ body \in Bodies
    /\ res = NewRes
    /\ connected = TRUE
    /\ upstreamCalls = 0
    /\ up = "none"
    /\ wire = <<>>
    /\ pos = 0
    /\ failure = NoFailure
    /\ aligned = TRUE
    /\ charAligned = TRUE
    /\ accepted = 0
    /\ peer = NoPeer
    /\ client = NewApp

\* app.post('/api/convert'): from the entry to the first await.
ConvertRequest ==
    /\ pc = "idle"
    /\ IF ~Truthy(InputCode(body))
       THEN /\ res' = SendJson(res, connected, 400,
                               [error |-> "inputCode is required"])
            /\ pc' = "responded"
            /\ UNCHANGED <<upstreamCalls, up>>
       ELSE /\ res' = IF Stream(body)
                      THEN [res EXCEPT !.contentType = "text/event-stream"]
                      ELSE res
            /\ upstreamCalls' = upstreamCalls + 1
            /\ up' = "pending"
            /\ pc' = "awaiting"
    /\ UNCHANGED <<body, connected, wire, pos, failure, aligned,
                   charAligned, accepted, peer, client>>

\* await axios({...responseType: 'stream'}) fulfilled: the two listeners
\* are attached.
StreamOpened ==
    /\ pc = "awaiting"
    /\ Stream(body)
    /\ \E w \in Wires : wire' = w
    /\ up' = "open"
    /\ pc' = "streaming"
    /\ UNCHANGED <<body, res, connected, upstreamCalls, pos, failure, aligned,
                   charAligned, accepted, peer, client>>

\* await axios(requestConfig) fulfilled: res.json({result, meta}).
NonStreamReply ==
    /\ pc = "awaiting"
    /\ ~Stream(body)
    /\ \E payload \in Payloads :
          LET data == JSONparse(payload).json
          IN  /\ wire' = payload
              /\ res' = SendJson(res, connected, res.statusCode,
                                 [result |-> Response(data),
                                  meta |-> [duration |-> TotalDuration(data),
                                            model |-> TargetModel(body)]])
    /\ up' = "done"
    /\ pc' = "responded"
    /\ UNCHANGED <<body, connected, upstreamCalls, pos, failure, aligned,
                   charAligned, accepted, peer, client>>

\* Variant: a rejected call is issued again.
UpstreamFailed_Retry ==
    /\ pc = "awaiting"
    /\ \E error \in UpstreamFailures : failure' = error
    /\ upstreamCalls' = upstreamCalls + 1
    /\ UNCHANGED <<pc, body, res, connected, up, wire, pos, aligned,
                   charAligned, accepted, peer, client>>

\* The awaited call rejected: the catch block.
UpstreamFailed ==
    /\ pc = "awaiting"
    /\ \E error \in UpstreamFailures :
          /\ failure' = error
          /\ res' = SendJson(res, connected, 500,
                             [error |-> "Conversion failed",
                              details |-> ErrorMsg(body, error)])
    /\ up' = "failed"
    /\ pc' = "responded"
    /\ UNCHANGED <<body, connected, upstreamCalls, wire, pos, aligned,
                   charAligned, accepted, peer, client>>

\* A 'data' event: the next n bytes of the stream, wherever they end.
OnData ==
    /\ pc = "streaming"
    /\ up = "open"
    /\ \E n \in 1..(Len(wire) - pos) :
          LET chunk == SubSeq(wire, pos + 1, pos + n)
          IN  /\ res' = DataHandler(res, connected, chunk)
              /\ pos' = pos + n
              /\ aligned' = (aligned /\ chunk[n] = NL)
              /\ charAligned' = (charAligned /\ chunk[n] \in {NL, "C3"})
    /\ UNCHANGED <<pc, body, connected, upstreamCalls, up, wire, failure,
                   accepted, peer, client>>

\* An 'error' event of the stream: a transport error, at any point.
OnError ==
    /\ pc = "streaming"
    /\ up = "open"
    /\ \E message \in StreamErrors :
          /\ failure' = StreamFailure(message)
          /\ res' = ErrorHandler(res, connected, message)
    /\ up' = "errored"
    /\ UNCHANGED <<pc, body, connected, upstreamCalls, wire, pos, aligned,
                   charAligned, accepted, peer, client>>

\* The 'end' event of the stream, after its last byte: no listener.
OnEnd ==
    /\ pc = "streaming"
    /\ up = "open"
    /\ pos = Len(wire)
    /\ up' = "ended"
    /\ UNCHANGED <<pc, body, res, connected, upstreamCalls, wire, pos, failure, aligned,
                   charAligned, accepted, peer, client>>

\* The browser drops the connection: no 'close' listener.
ClientDisconnect ==
    /\ pc \in {"awaiting", "streaming"}
    /\ connected
    /\ connected' = FALSE
    /\ UNCHANGED <<pc, body, res, upstreamCalls, up, wire, pos, failure, aligned,
                   charAligned, accepted, peer, client>>

Next ==
    \/ ConvertRequest
    \/ StreamOpened
    \/ NonStreamReply
    \/ UpstreamFailed
    \/ OnData
    \/ OnError
    \/ OnEnd
    \/ ClientDisconnect

Spec == Init /\ [][Next]_vars

(***************************************************************************)
(* The same handler on upstream streams that hold a multi-byte character.  *)
(***************************************************************************)
StreamOpenedUtf ==
    /\ pc = "awaiting"
    /\ Stream(body)
    /\ \E w \in UtfWires : wire' = w
    /\ up' = "open"
    /\ pc' = "streaming"
    /\ UNCHANGED <<body, res, connected, upstreamCalls, pos, failure, aligned,
                   charAligned, accepted, peer, client>>

NextUtf ==
    \/ ConvertRequest
    \/ StreamOpenedUtf
    \/ NonStreamReply
    \/ UpstreamFailed
    \/ OnData
    \/ OnError
    \/ OnEnd
    \/ ClientDisconnect

SpecUtf == Init /\ [][NextUtf]_vars

(***************************************************************************)
(* Two streaming requests in flight at once.  Each call of the handler has *)
(* its own req, res, targetModel and response; the module holds no state   *)
(* a request changes.  The second request is followed from the moment its  *)
(* stream opens, its client staying connected.                             *)
(***************************************************************************)
OwnWires == {Cat(<<RecA, RecADone>>), Cat(<<RecA, RecA>>)}

PeerWires == {Cat(<<RecB, RecDone>>), Cat(<<RecB, RecB>>)}

\* Variant: one res shared by the listeners of every request.
Closure_SharedRes(own, other, handled) == [own |-> handled, other |-> handled]

\* The listeners attached by one call of the handler close over that
\* call's res: what they write goes to it, and the res of the other request
\* stays as it is.
Closure(own, other, handled) == [own |-> handled, other |-> other]

InitTwo == Init /\ Stream(body) /\ Truthy(InputCode(body))

StreamOpenedOwn ==
    /\ pc = "awaiting"
    /\ Stream(body)
    /\ \E w \in OwnWires : wire' = w
    /\ up' = "open"
    /\ pc' = "streaming"
    /\ UNCHANGED <<body, res, connected, upstreamCalls, pos, failure, aligned,
                   charAligned, accepted, peer, client>>

\* The second request: validation passed, headers set, stream opened.
PeerOpened ==
    /\ peer.up = "none"
    /\ \E w \in PeerWires :
          peer' = [res |-> [NewRes EXCEPT !.contentType = "text/event-stream"],
                   wire |-> w, pos |-> 0, up |-> "open"]
    /\ UNCHANGED <<pc, body, res, connected, upstreamCalls, up, wire, pos,
                   failure, aligned, charAligned, accepted, client>>

\* A 'data' event of the second request's stream.
PeerData ==
    /\ peer.up = "open"
    /\ \E n \in 1..(Len(peer.wire) - peer.pos) :
          LET chunk == SubSeq(peer.wire, peer.pos + 1, peer.pos + n)
              c == Closure(peer.res, res, DataHandler(peer.res, TRUE, chunk))
          IN  /\ peer' = [peer EXCEPT !.res = c.own, !.pos = @ + n]
              /\ res' = c.other
    /\ UNCHANGED <<pc, body, connected, upstreamCalls, up, wire, pos, failure,
                   aligned, charAligned, accepted, client>>

\* An 'error' event of the second request's stream.
PeerError ==
    /\ peer.up = "open"
    /\ \E message \in StreamErrors :
          LET c == Closure(peer.res, res, ErrorHandler(peer.res, TRUE, message))
          IN  /\ peer' = [peer EXCEPT !.res = c.own, !.up = "errored"]
              /\ res' = c.other
    /\ UNCHANGED <<pc, body, connected, upstreamCalls, up, wire, pos, failure,
                   aligned, charAligned, accepted, client>>

\* The 'end' event of the second request's stream.
PeerEnd ==
    /\ peer.up = "open"
    /\ peer.pos = Len(peer.wire)
    /\ peer' = [peer EXCEPT !.up = "ended"]
    /\ UNCHANGED <<pc, body, res, connected, upstreamCalls, up, wire, pos,
                   failure, aligned, charAligned, accepted, client>>

NextTwo ==
    \/ ConvertRequest
    \/ StreamOpenedOwn
    \/ UpstreamFailed
    \/ OnData
    \/ OnError
    \/ OnEnd
    \/ ClientDisconnect
    \/ PeerOpened
    \/ PeerData
    \/ PeerError
    \/ PeerEnd

SpecTwo == InitTwo /\ [][NextTwo]_vars

(***************************************************************************)
(* The same handler with the downstream's reading made explicit: a frame   *)
(* written with res.write stays buffered until the client has taken it.    *)
(***************************************************************************)
SinkAccept ==
    /\ connected
    /\ accepted < Len(res.frames)
    /\ accepted' = accepted + 1
    /\ UNCHANGED <<pc, body, res, connected, upstreamCalls, up, wire, pos,
                   failure, aligned, charAligned, peer, client>>

NextSink ==
    \/ ConvertRequest
    \/ StreamOpened
    \/ NonStreamReply
    \/ UpstreamFailed
    \/ OnData
    \/ OnError
    \/ OnEnd
    \/ ClientDisconnect
    \/ SinkAccept

SpecSink == Init /\ [][NextSink]_vars

(***************************************************************************)
(* The browser page (App.tsx) in front of the handler: handleConvert posts *)
(* the request and reads the response body, the server's frames as bytes.  *)
(* In the response text "data: " is one token, a chunk frame's members are *)
(* its text, "D" the members of a done frame, the message the member of an *)
(* error frame, "J" the members of a JSON error body.                      *)
(***************************************************************************)
SelectedModel == "llama3.2:latest"

AppWires ==
    {Cat(<<RecA, RecB, RecDone>>), Cat(<<RecA, RecADone>>), Cat(<<RecA, RecB>>)}

\* JSON.stringify of a frame's object
Stringify(frame) ==
    IF "chunk" \in DOMAIN frame THEN <<"{">> \o frame.chunk \o <<"}">>
    ELSE IF "done" \in DOMAIN frame THEN <<"{", "D", "}">>
    ELSE <<"{", frame.error, "}">>

\* `data: ${JSON.stringify(...)}\n\n`
SseBytes(frame) == <<"data: ">> \o Stringify(frame) \o <<NL, NL>>

RECURSIVE SseStream(_)
SseStream(fs) ==
    IF fs = <<>> THEN <<>> ELSE SseBytes(Head(fs)) \o SseStream(Tail(fs))

\* The bytes of the response body so far: the frames written, or the JSON
\* object of res.json.
ResponseBody(r) ==
    IF r.sent # <<>> THEN <<"{", "J", "}">> ELSE SseStream(r.frames)

\* response headers are on the wire with the first write or with the end
HeadersSent(r) == r.frames # <<>> \/ r.ended

DataTokens == FragTokens \cup {"D", "J"} \cup StreamErrors

\* JSON.parse(line.slice(6))
ClientJSONparse(text) ==
    LET t == Trim(text)
    IN  IF /\ Len(t) >= 2
           /\ t[1] = "{"
           /\ t[Len(t)] = "}"
           /\ \A i \in 2..(Len(t) - 1) : t[i] \in DataTokens
        THEN [ok |-> TRUE, json |-> SubSeq(t, 2, Len(t) - 1)]
        ELSE [ok |-> FALSE, json |-> <<>>]

\* data.chunk and data.error ("" when absent)
DataChunk(json) == SelectSeq(json, LAMBDA c : c \in FragTokens)

DataError(json) == SelectSeq(json, LAMBDA c : c \in StreamErrors)

\* The body of the loop over the lines of one read.
ClientLine(c, line) ==
    IF ~(line # <<>> /\ line[1] = "data: ") THEN c
    ELSE LET p == ClientJSONparse(Tail(line))
         IN  IF ~p.ok THEN c
             ELSE LET c1 == IF DataChunk(p.json) # <<>>
                            THEN [c EXCEPT
                                    !.outputRef = @ \o DataChunk(p.json),
                                    !.outputCode =
                                        c.outputRef \o DataChunk(p.json)]
                            ELSE c
                  IN  IF DataError(p.json) # <<>>
                      THEN [c1 EXCEPT !.outputCode =
                               @ \o <<"\n// Error: ">> \o DataError(p.json)]
                      ELSE c1

RECURSIVE ClientLines(_, _)
ClientLines(c, lines) ==
    IF lines = <<>> THEN c
    ELSE ClientLines(ClientLine(c, Head(lines)), Tail(lines))

\* The page is mounted and no request has been made.
InitApp ==
    /\ pc = "none"
    /\ body = [inputCode |-> ""]
    /\ res = NewRes
    /\ connected = TRUE
    /\ upstreamCalls = 0
    /\ up = "none"
    /\ wire = <<>>
    /\ pos = 0
    /\ failure = NoFailure
    /\ aligned = TRUE
    /\ charAligned = TRUE
    /\ accepted = 0
    /\ peer = NoPeer
    /\ \E code \in {"x", ""} : client = [NewApp EXCEPT !.inputCode = code]

\* handleConvert up to the fetch: the request is posted.
HandleConvert ==
    /\ client.pc = "idle"
    /\ pc = "none"
    /\ IF ~Truthy(client.inputCode)
       THEN /\ client' = [client EXCEPT !.pc = "returned"]
            /\ UNCHANGED <<pc, body>>
       ELSE /\ client' = [client EXCEPT !.pc = "fetching",
                                        !.isLoading = TRUE,
                                        !.outputCode = <<>>,
                                        !.outputRef = <<>>]
            /\ body' = [inputCode |-> client.inputCode,
                        model |-> SelectedModel, stream |-> TRUE]
            /\ pc' = "idle"
    /\ UNCHANGED <<res, connected, upstreamCalls, up, wire, pos, failure,
                   aligned, charAligned, accepted, peer>>

\* fetch rejects (the backend is not reachable): catch, finally.
FetchFailed ==
    /\ client.pc = "fetching"
    /\ pc = "idle"
    /\ client' = [client EXCEPT !.pc = "done", !.isLoading = FALSE,
                                !.outputCode = <<"// Error: ", "Failed to fetch">>]
    /\ pc' = "none"
    /\ UNCHANGED <<body, res, connected, upstreamCalls, up, wire, pos, failure,
                   aligned, charAligned, accepted, peer>>

StreamOpenedApp ==
    /\ pc = "awaiting"
    /\ Stream(body)
    /\ \E w \in AppWires : wire' = w
    /\ up' = "open"
    /\ pc' = "streaming"
    /\ UNCHANGED <<body, res, connected, upstreamCalls, pos, failure, aligned,
                   charAligned, accepted, peer, client>>

\* await fetch fulfilled: response.body.getReader(), new TextDecoder()
FetchResolved ==
    /\ client.pc = "fetching"
    /\ HeadersSent(res)
    /\ client' = [client EXCEPT !.pc = "reading"]
    /\ UNCHANGED <<pc, body, res, connected, upstreamCalls, up, wire, pos,
                   failure, aligned, charAligned, accepted, peer>>

\* await reader.read() gives the next n bytes of the body, wherever they
\* end; the lines of this read are processed.
ClientRead ==
    /\ client.pc = "reading"
    /\ \E n \in 1..(Len(ResponseBody(res)) - client.rd) :
          LET value == SubSeq(ResponseBody(res), client.rd + 1, client.rd + n)
          IN  client' = [ClientLines(client, Split(value))
                            EXCEPT !.rd = client.rd + n]
    /\ UNCHANGED <<pc, body, res, connected, upstreamCalls, up, wire, pos,
                   failure, aligned, charAligned, accepted, peer>>

\* await reader.read() gives done: break, finally.
ReadDone ==
    /\ client.pc = "reading"
    /\ res.ended
    /\ client.rd = Len(ResponseBody(res))
    /\ client' = [client EXCEPT !.pc = "done", !.isLoading = FALSE]
    /\ UNCHANGED <<pc, body, res, connected, upstreamCalls, up, wire, pos,
                   failure, aligned, charAligned, accepted, peer>>

NextApp ==
    \/ HandleConvert
    \/ FetchFailed
    \/ ConvertRequest
    \/ StreamOpenedApp
    \/ UpstreamFailed
    \/ OnData
    \/ OnError
    \/ OnEnd
    \/ FetchResolved
    \/ ClientRead
    \/ ReadDone

SpecApp == InitApp /\ [][NextApp]_vars

\* The event loops of the page and of the server deliver every event that
\* stays ready: the click, the request, the settling of the axios call, the
\* bytes and the end of the upstream stream, the response headers and the
\* bytes and the end of the response body.  A transport error or an
\* unreachable backend may happen and need not.
FairApp ==
    /\ WF_vars(HandleConvert)
    /\ WF_vars(ConvertRequest)
    /\ WF_vars(StreamOpenedApp \/ UpstreamFailed)
    /\ WF_vars(OnData)
    /\ WF_vars(OnEnd)
    /\ WF_vars(FetchResolved)
    /\ WF_vars(ClientRead)
    /\ WF_vars(ReadDone)

SpecAppLive == InitApp /\ [][NextApp]_vars /\ FairApp

(***************************************************************************)
(* Vocabulary of the properties                                            *)
(***************************************************************************)
\* The lines of a byte sequence that ends on a delimiter.
LinesOf(w) == IF w = <<>> THEN <<>> ELSE SubSeq(Split(w), 1, Len(Split(w)) - 1)

\* N well-formed newline-terminated records.
WellFormedWire(w) ==
    \A i \in 1..Len(LinesOf(w)) : LinesOf(w)[i] \in WellFormedLines

IsCompletion(l) == l \in {RecDone, RecADone}

\* The upstream wire contract: well-formed records, the completion record
\* last and only there.
ContractWire(w) ==
    /\ WellFormedWire(w)
    /\ Len(LinesOf(w)) >= 1
    /\ \A i \in 1..Len(LinesOf(w)) :
          IsCompletion(LinesOf(w)[i]) <=> i = Len(LinesOf(w))

\* The members of a well-formed record, read off its text.
MembersOf(l) == SubSeq(l, 2, Len(l) - 1)

FragmentOf(l) == SelectSeq(MembersOf(l), LAMBDA c : c = "a" \/ c = "b")

\* One chunk frame per record with a non-empty fragment, in order, then
\* the done frame of the completion record.
RECURSIVE ChunkFramesOf(_)
ChunkFramesOf(ls) ==
    IF ls = <<>> THEN <<>>
    ELSE (IF FragmentOf(Head(ls)) # <<>>
          THEN <<[chunk |-> FragmentOf(Head(ls))]>>
          ELSE <<>>) \o ChunkFramesOf(Tail(ls))

ExpectedFrames(w) ==
    ChunkFramesOf(LinesOf(w))
        \o <<[done |-> TRUE, meta |-> MembersOf(LinesOf(w)[Len(LinesOf(w))])]>>

IsTerminator(f) == "done" \in DOMAIN f \/ "error" \in DOMAIN f

Terminators(fs) == Cardinality({i \in 1..Len(fs) : IsTerminator(fs[i])})

\* The stream has been delivered whole and no transport error occurred.
DeliveredWhole ==
    /\ pc = "streaming"
    /\ up \in {"open", "ended"}
    /\ pos = Len(wire)

(***************************************************************************)
(* C1  Chunk-boundary invariance: for N well-formed newline-terminated     *)
(* records, the frames written once the whole sequence has been delivered  *)
(* are those written when it is delivered as one chunk, however it was     *)
(* split.  Violated: a record cut by a chunk boundary is dropped.          *)
(***************************************************************************)
C1_ChunkBoundaryInvariance ==
    (DeliveredWhole /\ connected /\ WellFormedWire(wire))
        => res.frames = DataHandler(NewRes, TRUE, wire).frames

(***************************************************************************)
(* C2  Termination exclusivity: once an upstream stream that follows the   *)
(* wire contract has ended (cleanly or with an error) and the downstream   *)
(* is still connected, the frames end with a done or error frame and hold  *)
(* exactly one such frame.  Violated: when the completion record is cut by *)
(* a chunk boundary no done frame is written, and the clean end of the     *)
(* stream writes nothing.                                                  *)
(***************************************************************************)
C2_TerminationExclusivity ==
    (pc = "streaming" /\ connected /\ up \in {"ended", "errored"}
        /\ ContractWire(wire))
        => /\ Terminators(res.frames) = 1
           /\ IsTerminator(res.frames[Len(res.frames)])

(***************************************************************************)
(* C3  When every chunk holds only whole newline-terminated records of a   *)
(* stream that follows the wire contract, the downstream has received,     *)
(* once the stream is delivered, one chunk frame per record with a         *)
(* non-empty fragment, in order, then one done frame whose meta is the     *)
(* whole completion record, and nothing else.                              *)
(***************************************************************************)
C3_WholeRecordChunks ==
    (pc = "streaming" /\ connected /\ aligned /\ pos = Len(wire)
        /\ ContractWire(wire))
        => /\ res.frames = ExpectedFrames(wire)
           /\ res.ended

C3_Witness ==
    /\ pc = "streaming" /\ connected /\ aligned /\ pos = Len(wire)
    /\ wire = Cat(<<RecA, RecB, RecDone>>)
    /\ res.frames = <<[chunk |-> <<"a">>], [chunk |-> <<"b">>],
                      [done |-> TRUE, meta |-> <<"D", "T">>]>>

(***************************************************************************)
(* C4  Malformed-line tolerance: in every 'data' step the response is left *)
(* exactly as if the non-JSON lines of the chunk were not there (no frame  *)
(* for them, no close because of them); and when a chunk holds a record    *)
(* with a fragment, then a non-JSON line, then another record with a       *)
(* fragment, both fragments are written as chunk frames, in that order.    *)
(***************************************************************************)
IsJson(l) == JSONparse(l).ok

IsNonJson(l) == Trim(l) # <<>> /\ ~JSONparse(l).ok

HasFragment(l) == IsJson(l) /\ Response(JSONparse(l).json) # <<>>

C4_MalformedLineTolerance ==
    [][pos' > pos =>
        \A lines \in {Split(SubSeq(wire, pos + 1, pos'))} :
        \A new \in {SubSeq(res'.frames, Len(res.frames) + 1, Len(res'.frames))} :
            /\ res' = ProcessLines(res, connected,
                                   SelectSeq(lines, LAMBDA l : ~IsNonJson(l)))
            /\ (connected /\ ~res.ended) =>
                  \A j \in 1..Len(lines) : IsNonJson(lines[j]) =>
                  \A i \in 1..(j - 1) : HasFragment(lines[i]) =>
                  \A k \in (j + 1)..Len(lines) :
                     ( /\ HasFragment(lines[k])
                       /\ \A m \in 1..(k - 1) :
                             IsJson(lines[m]) => ~Done(JSONparse(lines[m]).json) )
                     => \E m, n \in 1..Len(new) :
                           /\ m < n
                           /\ new[m] = [chunk |-> Response(JSONparse(lines[i]).json)]
                           /\ new[n] = [chunk |-> Response(JSONparse(lines[k]).json)]
    ]_vars

C4_Witness ==
    /\ pc = "streaming" /\ connected /\ up = "open"
    /\ wire = Cat(<<RecA, BadLine, RecB>>)
    /\ pos = Len(wire)
    /\ aligned
    /\ res.frames = <<[chunk |-> <<"a">>], [chunk |-> <<"b">>]>>
    /\ ~res.ended

(***************************************************************************)
(* C5  A request whose inputCode is missing or empty is answered 400       *)
(* {error: "inputCode is required"} and no upstream call is issued,        *)
(* whatever its stream member.                                             *)
(***************************************************************************)
InputMissing == "inputCode" \notin DOMAIN body \/ body.inputCode = ""

C5_InputRequired ==
    (InputMissing /\ pc # "idle")
        => /\ pc = "responded"
           /\ res.statusCode = 400
           /\ res.sent = <<[error |-> "inputCode is required"]>>
           /\ res.frames = <<>>
           /\ upstreamCalls = 0
           /\ up = "none"

C5_Witness ==
    /\ pc = "responded"
    /\ body = [inputCode |-> "", model |-> "ghost:latest", stream |-> FALSE]
    /\ res.statusCode = 400
    /\ upstreamCalls = 0

(***************************************************************************)
(* C6  A failed generate call is answered 500 {error: "Conversion failed", *)
(* details}: details is "Model 'm' not found." for an upstream 404, with m *)
(* the requested model or the default one when none is given, and the      *)
(* transport error message for every other failure.                        *)
(***************************************************************************)
RequestedModel ==
    IF "model" \in DOMAIN body /\ body.model # ""
    THEN body.model
    ELSE "llama3.2:latest"

C6_ModelNotFound ==
    (up = "failed" /\ connected)
        => /\ res.statusCode = 500
           /\ res.sent =
                 << [error |-> "Conversion failed",
                     details |->
                        IF failure.hasResponse /\ failure.status = 404
                        THEN <<"Model '", RequestedModel, "' not found.">>
                        ELSE <<failure.message>>] >>
           /\ (res.sent[1].details = <<failure.message>>)
                 <=> ~(failure.hasResponse /\ failure.status = 404)

C6_Witness ==
    /\ up = "failed" /\ connected
    /\ "model" \notin DOMAIN body
    /\ failure.status = 404
    /\ res.sent[1].details = <<"Model '", "llama3.2:latest", "' not found.">>

(***************************************************************************)
(* C7  A transport error of the stream before any done frame, with the     *)
(* downstream still connected: exactly one error frame, carrying the       *)
(* error's message, is the last frame, and the response is ended.          *)
(***************************************************************************)
HasDone(fs) == \E i \in 1..Len(fs) : "done" \in DOMAIN fs[i]

ErrorFrames(fs) == {i \in 1..Len(fs) : "error" \in DOMAIN fs[i]}

C7_TransportError ==
    (up = "errored" /\ connected /\ ~HasDone(res.frames))
        => /\ ErrorFrames(res.frames) = {Len(res.frames)}
           /\ Len(res.frames) >= 1
           /\ res.frames[Len(res.frames)] = [error |-> failure.message]
           /\ res.ended

C7_Witness ==
    /\ up = "errored" /\ connected
    /\ res.frames = <<[chunk |-> <<"a">>], [error |-> "socket hang up"]>>
    /\ res.ended

(***************************************************************************)
(* C8  Once an upstream stream of well-formed records has ended cleanly    *)
(* after some frame was relayed, the response is ended.  Violated: the     *)
(* 'end' event has no listener, so without a done record the response      *)
(* stays open.                                                             *)
(***************************************************************************)
C8_ClosedAfterEnd ==
    (pc = "streaming" /\ up = "ended" /\ WellFormedWire(wire)
        /\ res.frames # <<>>)
        => res.ended

(***************************************************************************)
(* C9  A status other than 200 is set only while no frame has been         *)
(* written; once a frame has been written the status, the content type and *)
(* the JSON body never change, and a transport error on the still open     *)
(* response is reported as an error frame.                                 *)
(***************************************************************************)
C9_StatusBeforeFirstFrame ==
    [][ /\ (res'.statusCode # 200 \/ res'.sent # <<>>) => res'.frames = <<>>
        /\ res.frames # <<>> =>
              /\ res'.statusCode = res.statusCode
              /\ res'.contentType = res.contentType
              /\ res'.sent = res.sent
        /\ (res.frames # <<>> /\ up = "open" /\ up' = "errored"
                /\ connected /\ ~res.ended)
              => res'.frames = Append(res.frames, [error |-> failure'.message])
    ]_vars

C9_Witness ==
    /\ up = "errored" /\ connected
    /\ res.statusCode = 200
    /\ res.contentType = "text/event-stream"
    /\ Len(res.frames) = 3
    /\ "error" \in DOMAIN res.frames[3]

(***************************************************************************)
(* C10  Cancellation: after the downstream has disconnected in mid-stream  *)
(* no further upstream chunk is consumed and nothing more is written.      *)
(* Violated: the relay keeps reading the upstream stream to its end.       *)
(***************************************************************************)
C10_Cancellation ==
    [][(pc = "streaming" /\ ~connected /\ res.frames # <<>>)
          => (pos' = pos /\ res'.frames = res.frames)]_vars

(***************************************************************************)
(* C13  With stream false and a non-empty inputCode no frame is ever       *)
(* written and at most one response is sent; once the handler has          *)
(* answered a connected client it is exactly one: on success 200 {result,  *)
(* meta: {duration, model}} with result the response member of the         *)
(* upstream payload, duration its total_duration and model the requested   *)
(* (or default) model; on failure 500 {error: "Conversion failed",         *)
(* details}.                                                               *)
(***************************************************************************)
NonStreaming == "stream" \in DOMAIN body /\ body.stream = FALSE

C13_NonStreaming ==
    (NonStreaming /\ ~InputMissing)
        => /\ res.frames = <<>>
           /\ Len(res.sent) <= 1
           /\ (pc = "responded" /\ connected) =>
                 /\ Len(res.sent) = 1
                 /\ up \in {"done", "failed"}
                 /\ up = "done" =>
                       /\ res.statusCode = 200
                       /\ res.sent[1] =
                             [result |-> FragmentOf(wire),
                              meta |->
                                [duration |->
                                    IF \E i \in 1..Len(wire) : wire[i] = "T"
                                    THEN "500" ELSE "undefined",
                                 model |-> RequestedModel]]
                 /\ up = "failed" =>
                       /\ res.statusCode = 500
                       /\ DOMAIN res.sent[1] = {"error", "details"}
                       /\ res.sent[1].error = "Conversion failed"

C13_Witness ==
    /\ pc = "responded" /\ connected /\ up = "done"
    /\ body = [inputCode |-> "x", stream |-> FALSE]
    /\ res.sent = <<[result |-> <<"a">>,
                     meta |-> [duration |-> "500",
                               model |-> "llama3.2:latest"]]>>

(***************************************************************************)
(* C15  After the done frame has been written and the response ended, no   *)
(* further res.write is performed.  Violated: the loop over the lines has  *)
(* no break and the listeners stay attached, so a line after the done      *)
(* record, a later chunk or a later 'error' event calls res.write on the   *)
(* ended response.                                                         *)
(***************************************************************************)
C15_NoWriteAfterDone ==
    HasDone(res.frames) => ~res.writeAfterEnd

(***************************************************************************)
(* C16  Ordering: the chunk frames written carry, in order and without     *)
(* duplication, fragments of the records delivered so far (a subsequence   *)
(* of them); and in every 'data' step on an open, connected response the   *)
(* frames appended are those of the chunk's lines taken one after the      *)
(* other, each line's frames before any frame of a later line.             *)
(***************************************************************************)
RECURSIVE IsSubseq(_, _)
IsSubseq(xs, ys) ==
    IF xs = <<>> THEN TRUE
    ELSE IF ys = <<>> THEN FALSE
    ELSE IF Head(xs) = Head(ys) THEN IsSubseq(Tail(xs), Tail(ys))
    ELSE IsSubseq(xs, Tail(ys))

\* The fragments of the records among the segments ls, in order.
RECURSIVE FragmentsIn(_)
FragmentsIn(ls) ==
    IF ls = <<>> THEN <<>>
    ELSE (IF HasFragment(Head(ls))
          THEN <<Response(JSONparse(Head(ls)).json)>>
          ELSE <<>>) \o FragmentsIn(Tail(ls))

ChunkTexts(fs) ==
    LET cs == SelectSeq(fs, LAMBDA f : "chunk" \in DOMAIN f)
    IN  [i \in 1..Len(cs) |-> cs[i].chunk]

\* The frames of one line, and whether it is a completion record.
FramesOfLine(l) ==
    IF ~IsJson(l) THEN <<>>
    ELSE (IF HasFragment(l)
          THEN <<[chunk |-> Response(JSONparse(l).json)]>> ELSE <<>>)
         \o (IF Done(JSONparse(l).json)
             THEN <<[done |-> TRUE, meta |-> JSONparse(l).json]>> ELSE <<>>)

\* Line after line, up to and including the first completion record.
RECURSIVE FramesInOrder(_)
FramesInOrder(ls) ==
    IF ls = <<>> THEN <<>>
    ELSE IF IsJson(Head(ls)) /\ Done(JSONparse(Head(ls)).json)
         THEN FramesOfLine(Head(ls))
         ELSE FramesOfLine(Head(ls)) \o FramesInOrder(Tail(ls))

C16_Ordering ==
    /\ [](IsSubseq(ChunkTexts(res.frames),
                   FragmentsIn(Split(SubSeq(wire, 1, pos)))))
    /\ [][(pos' > pos /\ connected /\ ~res.ended) =>
            res'.frames = res.frames
                \o FramesInOrder(Split(SubSeq(wire, pos + 1, pos')))]_vars

C16_Witness ==
    /\ pc = "streaming" /\ connected
    /\ wire = Cat(<<RecB, RecA, RecB>>)
    /\ pos = Len(wire)
    /\ ~aligned
    /\ res.frames = <<[chunk |-> <<"b">>], [chunk |-> <<"a">>],
                      [chunk |-> <<"b">>]>>

(***************************************************************************)
(* C17  A blank or white-space-only segment, the empty trailing segment    *)
(* included, is never handed to JSON.parse, and every 'data' step leaves   *)
(* the response as if the chunk's blank segments were not there.           *)
(***************************************************************************)
C17_BlankSegments ==
    [][pos' > pos =>
        \A lines \in {Split(SubSeq(wire, pos + 1, pos'))} :
            /\ ~res'.blankParsed
            /\ res' = ProcessLines(res, connected,
                          SelectSeq(lines,
                                    LAMBDA l : \E i \in 1..Len(l) :
                                                  l[i] # " " /\ l[i] # "\n"))
    ]_vars

C17_Witness ==
    /\ pc = "streaming" /\ connected /\ aligned
    /\ wire = Cat(<<RecA, SpaceLine, RecB>>)
    /\ pos = Len(wire)
    /\ res.frames = <<[chunk |-> <<"a">>], [chunk |-> <<"b">>]>>
    /\ ~res.blankParsed

(***************************************************************************)
(* C18  At most one generate call is issued for a request; when the call   *)
(* has failed it is still the only one and the handler has answered 500    *)
(* and ended the response.                                                 *)
(***************************************************************************)
C18_SingleUpstreamCall ==
    /\ upstreamCalls <= 1
    /\ up = "failed" =>
          /\ upstreamCalls = 1
          /\ pc = "responded"
          /\ res.statusCode = 500
          /\ res.ended
          /\ connected => Len(res.sent) = 1

C18_Witness ==
    /\ up = "failed"
    /\ failure.message = "connect ECONNREFUSED 127.0.0.1:11434"
    /\ upstreamCalls = 1
    /\ res.statusCode = 500

(***************************************************************************)
(* C19  A record with a non-empty fragment and done = true, reaching an    *)
(* open connected response as a whole line: the frames then end with the   *)
(* chunk frame of the fragment followed by the done frame, and the         *)
(* response is ended.                                                      *)
(***************************************************************************)
C19_FinalFragment ==
    [][(pos' > pos /\ connected /\ ~res.ended) =>
        \A lines \in {Split(SubSeq(wire, pos + 1, pos'))} :
        \A k \in 1..Len(lines) :
            ( /\ HasFragment(lines[k])
              /\ Done(JSONparse(lines[k]).json)
              /\ \A m \in 1..(k - 1) :
                    IsJson(lines[m]) => ~Done(JSONparse(lines[m]).json) )
            => /\ Len(res'.frames) >= Len(res.frames) + 2
               /\ res'.frames[Len(res'.frames) - 1]
                     = [chunk |-> Response(JSONparse(lines[k]).json)]
               /\ res'.frames[Len(res'.frames)]
                     = [done |-> TRUE, meta |-> JSONparse(lines[k]).json]
               /\ res'.ended
    ]_vars

C19_Witness ==
    /\ pc = "streaming" /\ connected
    /\ wire = Cat(<<RecB, RecADone>>)
    /\ res.frames = <<[chunk |-> <<"b">>], [chunk |-> <<"a">>],
                      [done |-> TRUE, meta |-> <<"a", "D">>]>>
    /\ res.ended

(***************************************************************************)
(* C11  Backpressure: no further upstream chunk is consumed while a frame  *)
(* written earlier has not been accepted by the downstream.  Violated:     *)
(* the return value of res.write is ignored and the upstream is never      *)
(* paused, so chunks keep being consumed and frames keep piling up.        *)
(***************************************************************************)
C11_Backpressure ==
    [][(pos' > pos /\ connected) => accepted = Len(res.frames)]_vars

(***************************************************************************)
(* C12  When chunk boundaries fall only on record delimiters or between    *)
(* the two bytes of a multi-byte character, the texts of the chunk frames  *)
(* written are those written when the stream arrives in one chunk.         *)
(* Violated: each chunk is decoded on its own, and the record around the   *)
(* cut character is dropped.                                               *)
(***************************************************************************)
C12_MultiByteSplit ==
    (DeliveredWhole /\ connected /\ charAligned /\ ~aligned)
        => ChunkTexts(res.frames)
              = ChunkTexts(DataHandler(NewRes, TRUE, wire).frames)

\* Every frame of fs is an error frame or a frame of a record of stream w.
FromStream(fs, w) ==
    \A i \in 1..Len(fs) :
        \/ "error" \in DOMAIN fs[i]
        \/ \E j \in 1..Len(LinesOf(w)) :
              \E k \in 1..Len(FramesOfLine(LinesOf(w)[j])) :
                  fs[i] = FramesOfLine(LinesOf(w)[j])[k]

(***************************************************************************)
(* C14  Two streaming requests in flight are independent under every       *)
(* interleaving of their data, end and error events: each frame in a       *)
(* request's sink comes from a record of that request's own stream, and a  *)
(* step of one request (its termination included) leaves the other's       *)
(* response, frames and ended flag alike, as it was.                       *)
(***************************************************************************)
C14_Independence ==
    /\ [](FromStream(res.frames, wire) /\ FromStream(peer.res.frames, peer.wire))
    /\ [][/\ peer' # peer => res' = res
          /\ res' # res => peer' = peer]_vars

\* One request has terminated with a done frame while the other is in the
\* middle of its stream with frames written and its sink open.
C14_Witness ==
    /\ HasDone(res.frames)
    /\ res.ended
    /\ peer.up = "open"
    /\ peer.res.frames # <<>>
    /\ ~peer.res.ended
    /\ peer.pos < Len(peer.wire)

RECURSIVE Concat(_)
Concat(texts) ==
    IF texts = <<>> THEN <<>> ELSE Head(texts) \o Concat(Tail(texts))

(***************************************************************************)
(* C20  When the page's read loop has ended on a stream that carried no    *)
(* error frame, the output shown is the concatenation, in order, of the    *)
(* chunk texts of the frames the server wrote, however the response bytes  *)
(* were split into reads.  Violated: each read is split into lines on its  *)
(* own, so a frame whose bytes span two reads is dropped.                  *)
(***************************************************************************)
C20_ClientReassembly ==
    (client.pc = "done" /\ pc = "streaming" /\ ErrorFrames(res.frames) = {})
        => client.outputCode = Concat(ChunkTexts(res.frames))

\* The upstream stream is over: its 'end' event (after a done record or
\* without one) or its 'error' event has been emitted.
StreamOver == up \in {"ended", "errored"}

(***************************************************************************)
(* C21  Whenever the page is loading and the upstream stream is over       *)
(* (ended after a done record, ended without one, or failed with a         *)
(* transport error), isLoading eventually becomes false: the read loop     *)
(* terminates.  Stated for streams whose chunks all ended on a record      *)
(* delimiter, so that no record was lost on the way.  Violated: when the   *)
(* stream ends without a done record the server never ends the response,   *)
(* and reader.read() never reports done.                                   *)
(***************************************************************************)
C21_LoadingEnds ==
    (client.isLoading /\ StreamOver /\ aligned) ~> ~client.isLoading

====
